---- MODULE Spec2Model ----
(***************************************************************************)
(* A model of the TUI windows of undoio/python-debugging                   *)
(* (src/tui_windows.py): the ANSI-aware truncation of a styled string and  *)
(* the scrollable window that renders cached or regenerated content; and   *)
(* of the two threads of src/race.py, of the bytecode window of            *)
(* src/libpython_ui.py, and of the commands of src/libpython_extensions.py *)
(* that run the debuggee to an internal breakpoint.                        *)
(*                                                                         *)
(* A string is a sequence of code points.                                  *)
(***************************************************************************)
EXTENDS Integers, Sequences, FiniteSets, TLC

VARIABLES
    call,               \* the arguments of the truncate_ansi_string call under study
    ret,                \* what that call did: raised or returned a value
    windows,            \* the ScrollableWindow objects constructed so far
    connected,          \* the windows whose render is connected to before_prompt
    use_cached_lines,   \* self.use_cached_lines, per window
    cached_lines,       \* self.cached_lines: <<>> (None) or <<lines, height, width>>
    vscroll_offset,     \* self.vscroll_offset, per window
    hscroll_offset,     \* self.hscroll_offset, per window
    tui_window,         \* the host window handle: height, width, valid
    provider,           \* what get_lines of the window does when called now
    last,               \* the operation that made the last step
    trace,              \* per window, what the last step did to it
    race,               \* race.py: g_value.count, the lock and the two threads
    bytecode,           \* PythonBytecodeWindow: py-dis, the window, what render did
    command             \* advance_function / python_step_bytecode and gdb's breakpoints

vars == <<call, ret, windows, connected, use_cached_lines, cached_lines,
          vscroll_offset, hscroll_offset, tui_window, provider, last, trace,
          race, bytecode, command>>

windowVars == <<windows, connected, use_cached_lines, cached_lines,
                vscroll_offset, hscroll_offset, tui_window, provider, last, trace>>

truncateVars == <<call, ret>>

\* the state of the programs that are not ScrollableWindow
programVars == <<race, bytecode, command>>

-----------------------------------------------------------------------------
(* Bounds of the model.                                                    *)

\* a text is the concatenation of at most MaxPieces pieces
MaxPieces == 4
\* start and length of a truncation are drawn from -1 .. MaxRange
MaxRange == 2
\* the tall content has MaxLines lines
MaxLines == 3
\* the host window is 1 .. MaxHeight lines high
MaxHeight == 2
\* the host window is 1 .. MaxWidth columns wide
MaxWidth == 3
\* a scroll command moves by at most MaxDelta
MaxDelta == 2
\* a scroll command is taken while the raw offset stays within -MaxOffset .. MaxOffset
MaxOffset == 3

\* at most so many windows are created
MaxPanels == 2
\* the threads of race.py run while g_value.count stays within MaxCount
MaxCount == 7
\* py-dis prints at most MaxDis lines, and the bytecode window is at most
\* MaxDis lines high
MaxDis == 4
\* gdb numbers the internal breakpoints 1 .. MaxBreakpoints; a command starts
\* while two numbers are left
MaxBreakpoints == 4

-----------------------------------------------------------------------------
(* Code points.                                                            *)

ESC == 27
CSI == 91
NL == 10

\* random.randint(1, 5)
MinIncrement == 1
MaxIncrement == 5

Max(a, b) == IF a >= b THEN a ELSE b
Min(a, b) == IF a <= b THEN a ELSE b

\* [@-Z\\-_]
IsTwoByte(c) == (c >= 64 /\ c <= 90) \/ (c >= 92 /\ c <= 95)
\* [0-?]
IsParam(c) == c >= 48 /\ c <= 63
\* [ -/]
IsIntermediate(c) == c >= 32 /\ c <= 47
\* [@-~]
IsFinal(c) == c >= 64 /\ c <= 126

\* the first index at or after i of s that is not a parameter byte
RECURSIVE SkipParams(_, _)
SkipParams(s, i) ==
    IF i <= Len(s) /\ IsParam(s[i]) THEN SkipParams(s, i + 1) ELSE i

\* the first index at or after i of s that is not an intermediate byte
RECURSIVE SkipIntermediates(_, _)
SkipIntermediates(s, i) ==
    IF i <= Len(s) /\ IsIntermediate(s[i]) THEN SkipIntermediates(s, i + 1) ELSE i

\* ANSI_PATTERN tried at index i of s: the length of the match, 0 when there
\* is none.  The classes of the CSI form are disjoint, so the greedy match is
\* the only one.
ANSI_PATTERN(s, i) ==
    IF i + 1 > Len(s) \/ s[i] # ESC THEN 0
    ELSE IF IsTwoByte(s[i + 1]) THEN 2
    ELSE IF s[i + 1] = CSI
         THEN LET j == SkipIntermediates(s, SkipParams(s, i + 2))
              IN  IF j <= Len(s) /\ IsFinal(s[j]) THEN j - i + 1 ELSE 0
         ELSE 0

\* re.match(ANSI_PATTERN, component): a match at the start of component
re_match(component) == ANSI_PATTERN(component, 1) > 0

\* re.split(ANSI_PATTERN, string): the pattern is one capturing group, so the
\* result alternates text, match, text, ..., text (a text may be empty).
\* from is where the current text began, i where the scan stands.
RECURSIVE re_split_from(_, _, _)
re_split_from(s, from, i) ==
    IF i > Len(s) THEN << SubSeq(s, from, Len(s)) >>
    ELSE LET n == ANSI_PATTERN(s, i)
         IN  IF n > 0
             THEN << SubSeq(s, from, i - 1), SubSeq(s, i, i + n - 1) >>
                      \o re_split_from(s, i + n, i + n)
             ELSE re_split_from(s, from, i + 1)

\* re.split on the pattern without its capturing group: the matches are
\* dropped from the result
re_split_NoCapture(s) ==
    LET t == re_split_from(s, 1, 1)
    IN  [i \in 1 .. ((Len(t) + 1) \div 2) |-> t[2 * i - 1]]

re_split(s) == re_split_from(s, 1, 1)

\* ANSI_PATTERN.sub("", s): s without the leftmost non-overlapping matches
RECURSIVE re_sub_from(_, _)
re_sub_from(s, i) ==
    IF i > Len(s) THEN << >>
    ELSE LET n == ANSI_PATTERN(s, i)
         IN  IF n > 0 THEN re_sub_from(s, i + n)
             ELSE << s[i] >> \o re_sub_from(s, i + 1)

re_sub(s) == re_sub_from(s, 1)

-----------------------------------------------------------------------------
(* truncate_ansi_string                                                    *)

\* TruncateText without "position += remaining_to_start": the skipped part
\* of a split component is not counted
TruncateText_SkipNotCounted(component, start, end, position, output) ==
    LET remaining_to_start == Max(0, start - position)
    IN  IF Len(component) <= remaining_to_start
        THEN [output |-> output, position |-> position + Len(component)]
        ELSE LET skip == remaining_to_start # 0 /\ Len(component) > remaining_to_start
                 rest == IF skip
                         THEN SubSeq(component, remaining_to_start + 1, Len(component))
                         ELSE component
                 remaining_to_end == Max(0, end - position)
             IN  [output |-> output \o (IF Len(rest) <= remaining_to_end
                                        THEN rest
                                        ELSE SubSeq(rest, 1, remaining_to_end)),
                  position |-> position + Len(rest)]

\* TruncateText with the end of the range taken one character early
TruncateText_EndExclusive(component, start, end, position, output) ==
    LET remaining_to_start == Max(0, start - position)
    IN  IF Len(component) <= remaining_to_start
        THEN [output |-> output, position |-> position + Len(component)]
        ELSE LET skip == remaining_to_start # 0 /\ Len(component) > remaining_to_start
                 rest == IF skip
                         THEN SubSeq(component, remaining_to_start + 1, Len(component))
                         ELSE component
                 pos == IF skip THEN position + remaining_to_start ELSE position
                 remaining_to_end == Max(0, end - pos - 1)
             IN  [output |-> output \o (IF Len(rest) <= remaining_to_end
                                        THEN rest
                                        ELSE SubSeq(rest, 1, remaining_to_end)),
                  position |-> pos + Len(rest)]

\* the else branch of the loop body: a component of normal text
TruncateText(component, start, end, position, output) ==
    LET remaining_to_start == Max(0, start - position)
    IN  IF Len(component) <= remaining_to_start
        THEN [output |-> output, position |-> position + Len(component)]
        ELSE LET skip == remaining_to_start # 0 /\ Len(component) > remaining_to_start
                 rest == IF skip
                         THEN SubSeq(component, remaining_to_start + 1, Len(component))
                         ELSE component
                 pos == IF skip THEN position + remaining_to_start ELSE position
                 remaining_to_end == Max(0, end - pos)
             IN  [output |-> output \o (IF Len(rest) <= remaining_to_end
                                        THEN rest
                                        ELSE SubSeq(rest, 1, remaining_to_end)),
                  position |-> pos + Len(rest)]

\* TruncateLoop that emits an ANSI sequence only while the output range is
\* open: the sequences after the end of the range are dropped
RECURSIVE TruncateLoop_DropsAfterEnd(_, _, _, _, _, _)
TruncateLoop_DropsAfterEnd(components, k, start, end, position, output) ==
    IF k > Len(components) THEN output
    ELSE IF re_match(components[k])
         THEN TruncateLoop_DropsAfterEnd(components, k + 1, start, end, position,
                  IF position < end THEN output \o components[k] ELSE output)
         ELSE LET r == TruncateText(components[k], start, end, position, output)
              IN  TruncateLoop_DropsAfterEnd(components, k + 1, start, end,
                                             r.position, r.output)

\* the for loop over the components, from the k-th on
RECURSIVE TruncateLoop(_, _, _, _, _, _)
TruncateLoop(components, k, start, end, position, output) ==
    IF k > Len(components) THEN output
    ELSE IF re_match(components[k])
         THEN TruncateLoop(components, k + 1, start, end, position,
                           output \o components[k])
         ELSE LET r == TruncateText(components[k], start, end, position, output)
              IN  TruncateLoop(components, k + 1, start, end, r.position, r.output)

\* truncate_ansi_string with "and" for "or" in its check of the arguments
truncate_ansi_string_BothNegative(string, start, length) ==
    IF start < 0 /\ length < 0
    THEN [raised |-> "ValueError", value |-> << >>]
    ELSE [raised |-> "none",
          value |-> TruncateLoop(re_split(string), 1, start, start + length, 0, << >>)]

\* raised names the exception that left the call; value is what it returned
\* (the empty string stands in when it raised)
truncate_ansi_string(string, start, length) ==
    IF start < 0 \/ length < 0
    THEN [raised |-> "ValueError", value |-> << >>]
    ELSE [raised |-> "none",
          value |-> TruncateLoop(re_split(string), 1, start, start + length, 0, << >>)]

-----------------------------------------------------------------------------
(* ScrollableWindow                                                        *)

\* cached_lines before the first caching render
None == << >>

\* lines[a:b] of Python for 0 <= a
Slice(lines, a, b) == SubSeq(lines, a + 1, Min(b, Len(lines)))

\* "\n".join(lines)
RECURSIVE Join(_)
Join(lines) ==
    IF lines = << >> THEN << >>
    ELSE IF Len(lines) = 1 THEN lines[1]
    ELSE lines[1] \o << NL >> \o Join(Tail(lines))

\* max(len(ANSI_PATTERN.sub("", l)) for l in lines), for lines that are not empty
RECURSIVE MaxDisplayWidth(_)
MaxDisplayWidth(lines) ==
    IF Len(lines) = 1 THEN Len(re_sub(lines[1]))
    ELSE Max(Len(re_sub(lines[1])), MaxDisplayWidth(Tail(lines)))

\* the fields of window w as one record
Self(w) ==
    [use_cached_lines |-> use_cached_lines[w],
     cached_lines |-> cached_lines[w],
     vscroll_offset |-> vscroll_offset[w],
     hscroll_offset |-> hscroll_offset[w]]

\* get_lines raises gdb.error with prov.message, or returns prov.lines
get_lines_or_error(prov) ==
    IF prov.raises THEN << prov.message >> ELSE prov.lines

\* the lines the viewport works on: the cached ones, or the provider's
ViewportLines(self, prov) ==
    IF self.use_cached_lines /\ self.cached_lines # None
    THEN self.cached_lines[1]
    ELSE get_lines_or_error(prov)

\* the fields after the first statement of get_viewport_content
ViewportCache(self, prov) ==
    IF self.use_cached_lines /\ self.cached_lines # None
    THEN [self EXCEPT !.use_cached_lines = FALSE]
    ELSE LET lines == get_lines_or_error(prov)
         IN  IF lines # << >>
             THEN [self EXCEPT !.cached_lines =
                                   << lines, Len(lines), MaxDisplayWidth(lines) >>]
             ELSE self

\* LimitVScroll without the min against the content height
LimitVScroll_NoUpper(content_height, window_height, offset) ==
    Max(0, offset)

\* "Limit scroll to the content height"
LimitVScroll(content_height, window_height, offset) ==
    Max(0, Min(content_height - window_height, offset))

\* TruncateVertically that cuts from the first line, whatever the offset
TruncateVertically_FromTop(lines, content_height, window_height, offset) ==
    LET free_height == window_height - content_height
    IN  IF free_height < 0 THEN Slice(lines, 0, window_height) ELSE lines

\* "Truncate content vertically"
TruncateVertically(lines, content_height, window_height, offset) ==
    LET free_height == window_height - content_height
    IN  IF free_height < 0
        THEN LET scrolled_free_height == window_height - (content_height - offset)
             IN  IF scrolled_free_height >= 0
                 THEN Slice(lines, offset, Len(lines))
                 ELSE Slice(lines, offset, offset + window_height)
        ELSE lines

\* LimitHScroll without the max against 0
LimitHScroll_NoLower(content_width, window_width, offset) ==
    Min(content_width - window_width, offset)

\* "Limit scroll to the content width"
LimitHScroll(content_width, window_width, offset) ==
    Max(0, Min(content_width - window_width, offset))

\* TruncateHorizontally that forgets the column kept free: it asks for one
\* character more than window_width
TruncateHorizontally_NoMargin(lines, offset, window_width) ==
    [i \in 1 .. Len(lines) |->
        truncate_ansi_string(lines[i], offset, window_width + 1)]

\* "Truncate content horizontally": the calls of truncate_ansi_string
TruncateHorizontally(lines, offset, window_width) ==
    [i \in 1 .. Len(lines) |-> truncate_ansi_string(lines[i], offset, window_width)]

\* get_viewport_content that limits the offsets for this render only and
\* leaves the raw sums in vscroll_offset and hscroll_offset
get_viewport_content_KeepsRawOffsets(self, win, prov) ==
    LET cache_hit == self.use_cached_lines /\ self.cached_lines # None
        lines == ViewportLines(self, prov)
        s1 == ViewportCache(self, prov)
        calls == IF cache_hit THEN 0 ELSE 1
    IN  IF lines = << >>
        THEN [self |-> s1, output |-> << >>, calls |-> calls, lines |-> lines,
              raised |-> "none"]
        ELSE LET content_height == s1.cached_lines[2]
                 content_width == s1.cached_lines[3]
                 window_height == win.height
                 v == LimitVScroll(content_height, window_height, s1.vscroll_offset)
                 shown == TruncateVertically(lines, content_height, window_height, v)
                 window_width == win.width - 1
                 h == LimitHScroll(content_width, window_width, s1.hscroll_offset)
                 truncated_lines == TruncateHorizontally(shown, h, window_width)
             IN  [self |-> s1,
                  output |-> Join([i \in 1 .. Len(truncated_lines) |->
                                      truncated_lines[i].value]),
                  calls |-> calls, lines |-> lines, raised |-> "none"]

\* get_viewport_content that limits the offsets against the window only when
\* it called get_lines: a render of the cached lines takes the offsets as
\* limited for the window of the render before, kept non-negative
get_viewport_content_LimitsOnRegeneration(self, win, prov) ==
    LET cache_hit == self.use_cached_lines /\ self.cached_lines # None
        lines == ViewportLines(self, prov)
        s1 == ViewportCache(self, prov)
        calls == IF cache_hit THEN 0 ELSE 1
    IN  IF lines = << >>
        THEN [self |-> s1, output |-> << >>, calls |-> calls, lines |-> lines,
              raised |-> "none"]
        ELSE LET content_height == s1.cached_lines[2]
                 content_width == s1.cached_lines[3]
                 window_height == win.height
                 v == IF cache_hit THEN Max(0, s1.vscroll_offset)
                      ELSE LimitVScroll(content_height, window_height,
                                        s1.vscroll_offset)
                 shown == TruncateVertically(lines, content_height, window_height, v)
                 window_width == win.width - 1
                 h == IF cache_hit THEN Max(0, s1.hscroll_offset)
                      ELSE LimitHScroll(content_width, window_width,
                                        s1.hscroll_offset)
                 truncated_lines == TruncateHorizontally(shown, h, window_width)
                 s2 == [s1 EXCEPT !.vscroll_offset = v, !.hscroll_offset = h]
             IN  [self |-> s2,
                  output |-> Join([i \in 1 .. Len(truncated_lines) |->
                                      truncated_lines[i].value]),
                  calls |-> calls, lines |-> lines, raised |-> "none"]

\* get_viewport_content: the fields it leaves, the string it returns, how often
\* it called get_lines, the lines it worked on and the exception that left it
get_viewport_content(self, win, prov) ==
    LET cache_hit == self.use_cached_lines /\ self.cached_lines # None
        lines == ViewportLines(self, prov)
        s1 == ViewportCache(self, prov)
        calls == IF cache_hit THEN 0 ELSE 1
    IN  IF lines = << >>
        THEN [self |-> s1, output |-> << >>, calls |-> calls, lines |-> lines,
              raised |-> "none"]
        ELSE LET content_height == s1.cached_lines[2]
                 content_width == s1.cached_lines[3]
                 window_height == win.height
                 v == LimitVScroll(content_height, window_height, s1.vscroll_offset)
                 shown == TruncateVertically(lines, content_height, window_height, v)
                 window_width == win.width - 1
                 h == LimitHScroll(content_width, window_width, s1.hscroll_offset)
                 truncated_lines == TruncateHorizontally(shown, h, window_width)
                 s2 == [s1 EXCEPT !.vscroll_offset = v, !.hscroll_offset = h]
             IN  IF \E i \in 1 .. Len(truncated_lines) :
                        truncated_lines[i].raised # "none"
                 THEN [self |-> s2, output |-> << >>, calls |-> calls,
                       lines |-> lines, raised |-> "ValueError"]
                 ELSE [self |-> s2,
                       output |-> Join([i \in 1 .. Len(truncated_lines) |->
                                           truncated_lines[i].value]),
                       calls |-> calls, lines |-> lines, raised |-> "none"]

\* what a step that does not touch a window leaves of it
Untouched(self) ==
    [self |-> self, writes |-> << >>, calls |-> 0, lines |-> << >>, raised |-> "none",
     renders |-> 0]

\* render without the is_valid() test of line 179
render_IgnoresValid(self, win, prov) ==
    LET r == get_viewport_content(self, win, prov)
    IN  [self |-> r.self,
         writes |-> IF r.raised = "none"
                    THEN << [string |-> r.output, full_redraw |-> TRUE] >>
                    ELSE << >>,
         calls |-> r.calls, lines |-> r.lines, raised |-> r.raised,
         renders |-> 1]

\* render that writes the viewport content twice
render_WritesTwice(self, win, prov) ==
    IF ~win.valid THEN [Untouched(self) EXCEPT !.renders = 1]
    ELSE LET r == get_viewport_content(self, win, prov)
             w == [string |-> r.output, full_redraw |-> TRUE]
         IN  [self |-> r.self,
              writes |-> IF r.raised = "none" THEN << w, w >> ELSE << >>,
              calls |-> r.calls, lines |-> r.lines, raised |-> r.raised,
              renders |-> 1]

\* render: nothing on an invalid window, else one write of the viewport content
render(self, win, prov) ==
    IF ~win.valid THEN [Untouched(self) EXCEPT !.renders = 1]
    ELSE LET r == get_viewport_content(self, win, prov)
         IN  [self |-> r.self,
              writes |-> IF r.raised = "none"
                         THEN << [string |-> r.output, full_redraw |-> TRUE] >>
                         ELSE << >>,
              calls |-> r.calls, lines |-> r.lines, raised |-> r.raised,
              renders |-> 1]

\* vscroll(num)
vscroll(self, num, win, prov) ==
    render([self EXCEPT !.vscroll_offset = @ + num, !.use_cached_lines = TRUE],
           win, prov)

\* hscroll(num)
hscroll(self, num, win, prov) ==
    render([self EXCEPT !.hscroll_offset = @ + num, !.use_cached_lines = TRUE],
           win, prov)

-----------------------------------------------------------------------------
(* The inputs the model draws.                                             *)

\* the pieces texts are made of: single characters (a lone ESC, a parameter
\* byte "3", an intermediate byte " ", "A" that ends both forms, "m" that
\* ends the CSI form only), an unfinished CSI "ESC [" and the CSI "ESC [ m"
Pieces ==
    { << ESC >>, << 51 >>, << 32 >>, << 65 >>, << 109 >>,
      << ESC, CSI >>, << ESC, CSI, 109 >> }

RECURSIVE TextsOf(_)
TextsOf(n) ==
    IF n = 0 THEN { << >> }
    ELSE LET shorter == TextsOf(n - 1)
         IN  shorter \cup { t \o p : t \in shorter, p \in Pieces }

Texts == TextsOf(MaxPieces)

Ranges == -1 .. MaxRange

\* "0", "1", ...: one character a line
TallLines == [i \in 1 .. MaxLines |-> << 47 + i >>]

\* "ESC[3m a b ESC[m c d" and "e"
StyledLines ==
    << << ESC, CSI, 51, 109, 97, 98, ESC, CSI, 109, 99, 100 >>, << 101 >> >>

\* "Err", the message of the gdb.error
ErrorMessage == << 69, 114, 114 >>

Providers ==
    { [raises |-> FALSE, lines |-> << >>, message |-> << >>],
      [raises |-> FALSE, lines |-> TallLines, message |-> << >>],
      [raises |-> FALSE, lines |-> StyledLines, message |-> << >>],
      [raises |-> TRUE, lines |-> << >>, message |-> ErrorMessage] }

Geometries == [height : 1 .. MaxHeight, width : 1 .. MaxWidth, valid : BOOLEAN]

Deltas == { -MaxDelta, -1, 1, MaxDelta }

-----------------------------------------------------------------------------
(* The state after construction.                                           *)

\* no truncate_ansi_string call is under study
NoCall == [string |-> << >>, start |-> 0, length |-> 0]
NoReturn == [raised |-> "pending", value |-> << >>]

\* race.py was not started
NoRace == << >>

\* no PythonBytecodeWindow was created
NoBytecode == << >>

\* libpython_extensions is not loaded
NoCommand == << >>

\* no other program runs
NoPrograms == race = NoRace /\ bytecode = NoBytecode /\ command = NoCommand

\* nothing was done to a window yet
NoTrace ==
    [writes |-> << >>, calls |-> 0, lines |-> << >>, raised |-> "none",
     renders |-> 0, resized |-> FALSE]

\* ScrollableWindow.__init__ for the windows ws
InitWindows(ws) ==
    /\ windows = ws
    /\ connected = ws
    /\ use_cached_lines = [w \in ws |-> FALSE]
    /\ cached_lines = [w \in ws |-> None]
    /\ vscroll_offset = [w \in ws |-> 0]
    /\ hscroll_offset = [w \in ws |-> 0]
    /\ tui_window \in [ws -> Geometries]
    /\ provider \in [ws -> Providers]
    /\ last = [op |-> "__init__", window |-> 0, num |-> 0]
    /\ trace = [w \in ws |-> NoTrace]

\* one window, constructed and connected
Init ==
    /\ call = NoCall
    /\ ret = NoReturn
    /\ NoPrograms
    /\ InitWindows({1})

\* a text to truncate, and no window
InitTruncate ==
    /\ call \in [string : Texts, start : {0}, length : {0}]
    /\ ret = NoReturn
    /\ NoPrograms
    /\ InitWindows({})

-----------------------------------------------------------------------------
(* The operations.                                                         *)

\* the fields and the trace after a step whose effect on window w is res[w].
\* trace[w].resized tells that render ran for w right after the host had
\* resized it.
Commit(res) ==
    \E r \in {res} :
        /\ use_cached_lines' = [w \in windows |-> r[w].self.use_cached_lines]
        /\ cached_lines' = [w \in windows |-> r[w].self.cached_lines]
        /\ vscroll_offset' = [w \in windows |-> r[w].self.vscroll_offset]
        /\ hscroll_offset' = [w \in windows |-> r[w].self.hscroll_offset]
        /\ trace' = [w \in windows |->
                        [writes |-> r[w].writes, calls |-> r[w].calls,
                         lines |-> r[w].lines, raised |-> r[w].raised,
                         renders |-> r[w].renders,
                         resized |-> /\ last.op = "resize"
                                     /\ last.window = w
                                     /\ r[w].renders = 1]]

\* gdb.events.before_prompt fires: the render of every connected window runs
BeforePrompt ==
    /\ connected # {}
    /\ Commit([w \in windows |->
                  IF w \in connected
                  THEN render(Self(w), tui_window[w], provider[w])
                  ELSE Untouched(Self(w))])
    /\ last' = [op |-> "before_prompt", window |-> 0, num |-> 0]
    /\ UNCHANGED <<windows, connected, tui_window, provider, call, ret, programVars>>

\* vscroll_offset kept once for all windows: a vscroll on one window scrolls
\* every connected window
VScroll_SharedOffset(w, num) ==
    /\ w \in connected
    /\ vscroll_offset[w] + num \in -MaxOffset .. MaxOffset
    /\ Commit([x \in windows |->
                  IF x \in connected
                  THEN vscroll(Self(x), num, tui_window[x], provider[x])
                  ELSE Untouched(Self(x))])
    /\ last' = [op |-> "vscroll", window |-> w, num |-> num]
    /\ UNCHANGED <<windows, connected, tui_window, provider, call, ret, programVars>>

\* the host calls vscroll(num) of window w
VScroll(w, num) ==
    /\ w \in connected
    /\ vscroll_offset[w] + num \in -MaxOffset .. MaxOffset
    /\ Commit([x \in windows |->
                  IF x = w
                  THEN vscroll(Self(w), num, tui_window[w], provider[w])
                  ELSE Untouched(Self(x))])
    /\ last' = [op |-> "vscroll", window |-> w, num |-> num]
    /\ UNCHANGED <<windows, connected, tui_window, provider, call, ret, programVars>>

\* the host calls hscroll(num) of window w
HScroll(w, num) ==
    /\ w \in connected
    /\ hscroll_offset[w] + num \in -MaxOffset .. MaxOffset
    /\ Commit([x \in windows |->
                  IF x = w
                  THEN hscroll(Self(w), num, tui_window[w], provider[w])
                  ELSE Untouched(Self(x))])
    /\ last' = [op |-> "hscroll", window |-> w, num |-> num]
    /\ UNCHANGED <<windows, connected, tui_window, provider, call, ret, programVars>>

\* the host gives window w another height or width; op is what last keeps of
\* the step
ResizeAs(w, op) ==
    /\ w \in windows
    /\ \E g \in Geometries :
          /\ g.valid = tui_window[w].valid
          /\ (g.height = tui_window[w].height) # (g.width = tui_window[w].width)
          /\ tui_window' = [tui_window EXCEPT ![w] = g]
    /\ Commit([x \in windows |-> Untouched(Self(x))])
    /\ last' = [op |-> op, window |-> w, num |-> 0]
    /\ UNCHANGED <<windows, connected, provider, call, ret, programVars>>

\* a resize among the other things the host does to the window
Resize(w) == ResizeAs(w, "host")

\* a layout change makes window w invalid, or valid again
Revalidate(w) ==
    /\ w \in windows
    /\ tui_window' = [tui_window EXCEPT ![w].valid = ~@]
    /\ Commit([x \in windows |-> Untouched(Self(x))])
    /\ last' = [op |-> "host", window |-> w, num |-> 0]
    /\ UNCHANGED <<windows, connected, provider, call, ret, programVars>>

\* the debuggee moves on: get_lines of window w has something else to say
ContentChange(w) ==
    /\ w \in windows
    /\ \E c \in Providers :
          /\ c # provider[w]
          /\ provider' = [provider EXCEPT ![w] = c]
    /\ Commit([x \in windows |-> Untouched(Self(x))])
    /\ last' = [op |-> "host", window |-> w, num |-> 0]
    /\ UNCHANGED <<windows, connected, tui_window, call, ret, programVars>>

Next ==
    \/ BeforePrompt
    \/ \E w \in windows, num \in Deltas : VScroll(w, num)
    \/ \E w \in windows, num \in Deltas : HScroll(w, num)
    \/ \E w \in windows : Resize(w)
    \/ \E w \in windows : Revalidate(w)
    \/ \E w \in windows : ContentChange(w)

Spec == Init /\ [][Next]_vars

-----------------------------------------------------------------------------
(* Several windows, created and closed while gdb runs.                     *)

\* the windows gdb may create
Panels == 1 .. MaxPanels

\* what a new window is given: its size, and a get_lines with lines to show
PanelGeometries == {g \in Geometries : g.valid /\ g.height = MaxHeight /\ g.width = MaxWidth}
PanelProviders == {p \in Providers : ~p.raises /\ p.lines # << >>}
PanelDeltas == { -1, 1 }

\* f with the value v for the new window w
Extend(f, w, v) == [x \in DOMAIN f \cup {w} |-> IF x = w THEN v ELSE f[x]]

\* no window yet
InitPanels ==
    /\ call = NoCall
    /\ ret = NoReturn
    /\ NoPrograms
    /\ InitWindows({})

\* gdb creates window w: ScrollableWindow.__init__ sets its fields and
\* connects its render to before_prompt
Construct(w) ==
    /\ w \notin windows
    /\ windows' = windows \cup {w}
    /\ connected' = connected \cup {w}
    /\ use_cached_lines' = Extend(use_cached_lines, w, FALSE)
    /\ cached_lines' = Extend(cached_lines, w, None)
    /\ vscroll_offset' = Extend(vscroll_offset, w, 0)
    /\ hscroll_offset' = Extend(hscroll_offset, w, 0)
    /\ \E g \in PanelGeometries : tui_window' = Extend(tui_window, w, g)
    /\ \E p \in PanelProviders : provider' = Extend(provider, w, p)
    /\ trace' = [x \in windows \cup {w} |-> NoTrace]
    /\ last' = [op |-> "__init__", window |-> w, num |-> 0]
    /\ UNCHANGED <<call, ret, programVars>>

\* every window is closed at once (close disconnecting more than its own
\* render)
Close_DisconnectsAll(w) ==
    /\ w \in connected
    /\ connected' = {}
    /\ Commit([x \in windows |-> Untouched(Self(x))])
    /\ last' = [op |-> "close", window |-> w, num |-> 0]
    /\ UNCHANGED <<windows, tui_window, provider, call, ret, programVars>>

\* gdb closes window w: close disconnects its render from before_prompt
Close(w) ==
    /\ w \in connected
    /\ connected' = connected \ {w}
    /\ Commit([x \in windows |-> Untouched(Self(x))])
    /\ last' = [op |-> "close", window |-> w, num |-> 0]
    /\ UNCHANGED <<windows, tui_window, provider, call, ret, programVars>>

NextPanels ==
    \/ \E w \in Panels : Construct(w)
    \/ \E w \in windows : Close(w)
    \/ BeforePrompt
    \/ \E w \in windows, num \in PanelDeltas : VScroll(w, num)
    \/ \E w \in windows, num \in PanelDeltas : HScroll(w, num)

SpecPanels == InitPanels /\ [][NextPanels]_vars

-----------------------------------------------------------------------------
(* One window with lines to show, resized between its renders.             *)

\* a valid window of any size whose get_lines returns lines
InitResize ==
    /\ call = NoCall
    /\ ret = NoReturn
    /\ NoPrograms
    /\ InitWindows({1})
    /\ tui_window[1].valid
    /\ provider[1] \in PanelProviders

\* a resize that last remembers as one
ResizeSeen(w) == ResizeAs(w, "resize")

NextResize ==
    \/ BeforePrompt
    \/ \E w \in windows, num \in Deltas : VScroll(w, num)
    \/ \E w \in windows, num \in Deltas : HScroll(w, num)
    \/ \E w \in windows : ResizeSeen(w)

SpecResize == InitResize /\ [][NextResize]_vars

\* truncate_ansi_string(call.string, start, length) is called
Truncate(start, length) ==
    /\ ret = NoReturn
    /\ call' = [call EXCEPT !.start = start, !.length = length]
    /\ ret' = truncate_ansi_string(call.string, start, length)
    /\ UNCHANGED <<windowVars, programVars>>

NextTruncate == \E start \in Ranges, length \in Ranges : Truncate(start, length)

SpecTruncate == InitTruncate /\ [][NextTruncate]_vars

-----------------------------------------------------------------------------
(* What the claims speak of.                                               *)

\* the display length of s: its characters outside every escape sequence
DisplayLen(s) == Len(re_sub(s))

\* the escape sequences of s, in order
Escapes(s) ==
    LET components == re_split(s)
    IN  [i \in 1 .. (Len(components) \div 2) |-> components[2 * i]]

\* s with every escape sequence kept and a plain character kept when its
\* display position (pos counts the plain characters before index i) is in
\* start .. end - 1
RECURSIVE KeepRange(_, _, _, _, _)
KeepRange(s, i, pos, start, end) ==
    IF i > Len(s) THEN << >>
    ELSE LET n == ANSI_PATTERN(s, i)
         IN  IF n > 0
             THEN SubSeq(s, i, i + n - 1) \o KeepRange(s, i + n, pos, start, end)
             ELSE (IF start <= pos /\ pos < end THEN << s[i] >> ELSE << >>)
                      \o KeepRange(s, i + 1, pos + 1, start, end)

\* the display characters start .. start + length - 1 of s (counted from 0)
DisplayRange(s, start, length) ==
    SubSeq(re_sub(s), start + 1, Min(start + length, DisplayLen(s)))

\* s.split("\n")
RECURSIVE SplitLinesFrom(_, _, _)
SplitLinesFrom(s, from, i) ==
    IF i > Len(s) THEN << SubSeq(s, from, Len(s)) >>
    ELSE IF s[i] = NL
         THEN << SubSeq(s, from, i - 1) >> \o SplitLinesFrom(s, i + 1, i + 1)
         ELSE SplitLinesFrom(s, from, i + 1)

SplitLines(s) == SplitLinesFrom(s, 1, 1)

Returned == ret.raised = "none"

-----------------------------------------------------------------------------
(* Claims about truncate_ansi_string, checked under SpecTruncate.          *)

\* C1: for start >= 0 and length >= 0 the display length of
\* truncate_ansi_string(text, start, length) is max(0, min(length, N - start)),
\* N being the display length of text.
C1_DisplayLength ==
    Returned =>
        DisplayLen(ret.value) =
            Max(0, Min(call.length, DisplayLen(call.string) - call.start))

\* a styled text cut inside its plain characters: some are kept, some dropped
\* on either side of the range
C1_Witness ==
    /\ Returned
    /\ Escapes(call.string) # << >>
    /\ call.start > 0
    /\ call.length > 0
    /\ call.start + call.length < DisplayLen(call.string)
    /\ DisplayLen(ret.value) = call.length

\* C2: the escape sequences of the result are those of the input, in order,
\* wherever they lie; the plain characters kept are the display characters
\* start .. start + length - 1, each at its place among the escape sequences.
C2_EscapesKept ==
    Returned =>
        /\ Escapes(ret.value) = Escapes(call.string)
        /\ re_sub(ret.value) = DisplayRange(call.string, call.start, call.length)
        /\ ret.value = KeepRange(call.string, 1, 0, call.start,
                                 call.start + call.length)

\* escape sequences before, inside and after the range, all kept, and a
\* plain character dropped
C2_Witness ==
    /\ Returned
    /\ Len(Escapes(call.string)) >= 2
    /\ Escapes(ret.value) = Escapes(call.string)
    /\ call.start = 1
    /\ call.length = 1
    /\ DisplayLen(call.string) >= 2
    /\ DisplayLen(ret.value) = 1

\* C10: truncate_ansi_string raises ValueError, and returns nothing, exactly
\* when start < 0 or length < 0.
C10_RaisesOnNegative ==
    ret # NoReturn =>
        /\ ret.raised \in {"none", "ValueError"}
        /\ ret.raised = "ValueError" <=> (call.start < 0 \/ call.length < 0)
        /\ ret.raised = "ValueError" => ret.value = << >>

\* one argument alone is negative and the call raises
C10_Witness ==
    /\ ret.raised = "ValueError"
    /\ call.start >= 0
    /\ call.length < 0
    /\ call.string # << >>

-----------------------------------------------------------------------------
(* Claims about ScrollableWindow, checked under Spec.                      *)

\* the last step completed a render of window w: render wrote to the window
Rendered(w) == trace[w].writes # << >>

\* what that render wrote, and its lines
Output(w) == trace[w].writes[1].string
OutputLines(w) == SplitLines(Output(w))

\* the lines that render worked on (none when get_lines returned none)
Content(w) == trace[w].lines

IsScroll(step) == step.op \in {"vscroll", "hscroll"}

\* C3: after every completed render on a valid window, zero-line renders
\* included, 0 <= vscroll_offset <= max(0, content_height - window height).
C3_VScrollInRange ==
    \A w \in windows :
        Rendered(w) =>
            /\ 0 <= vscroll_offset[w]
            /\ vscroll_offset[w]
                   <= Max(0, Len(Content(w)) - tui_window[w].height)

\* C4: after every completed render on a valid window, zero-line renders
\* included, 0 <= hscroll_offset <= max(0, content_width - (window width - 1)).
C4_HScrollInRange ==
    \A w \in windows :
        Rendered(w) =>
            /\ 0 <= hscroll_offset[w]
            /\ hscroll_offset[w]
                   <= Max(0, (IF Content(w) = << >> THEN 0
                              ELSE MaxDisplayWidth(Content(w)))
                                 - (tui_window[w].width - 1))

\* C5: a render of H >= 1 lines in a window of height W >= 1 writes exactly
\* min(H, W) lines, the run of content lines that starts at the clamped
\* vscroll_offset (all of them when H <= W).
C5_FillsWindow ==
    \A w \in windows :
        (Rendered(w) /\ Content(w) # << >>) =>
            LET H == Len(Content(w))
                W == tui_window[w].height
                v == vscroll_offset[w]
                out == OutputLines(w)
            IN  /\ Len(out) = Min(H, W)
                /\ v >= 0
                /\ v + Len(out) <= H
                /\ H <= W => v = 0
                /\ \A i \in 1 .. Len(out) :
                       out[i] = truncate_ansi_string(Content(w)[v + i],
                                    hscroll_offset[w],
                                    tui_window[w].width - 1).value

\* more lines than the window holds, shown from the middle
C5_Witness ==
    /\ Rendered(1)
    /\ Len(Content(1)) = 3
    /\ tui_window[1].height = 1
    /\ vscroll_offset[1] = 1
    /\ OutputLines(1) = << << 49 >> >>

\* C6: with H > W lines, a vscroll whose delta takes the offset to H - W or
\* beyond renders exactly the last W lines.
C6_OvershootShowsEnd ==
    [][\A w \in windows :
          LET H == Len(Content(w)')
              W == tui_window[w].height
          IN  (/\ last'.op = "vscroll"
               /\ last'.window = w
               /\ Rendered(w)'
               /\ H > W
               /\ vscroll_offset[w] + last'.num >= H - W)
              => /\ vscroll_offset'[w] = H - W
                 /\ OutputLines(w)' =
                        [i \in 1 .. W |->
                            truncate_ansi_string(Content(w)'[H - W + i],
                                hscroll_offset'[w],
                                tui_window[w].width - 1).value]]_vars

\* a scroll by more than the lines left has shown the last two of three lines
C6_Witness ==
    /\ last.op = "vscroll"
    /\ last.num = 2
    /\ Rendered(1)
    /\ Content(1) = TallLines
    /\ tui_window[1].height = 2
    /\ vscroll_offset[1] = 1
    /\ OutputLines(1) = << << 49 >>, << 50 >> >>

\* C7: every line written is the corresponding content line truncated with
\* start = the clamped hscroll_offset and length = width - 1: at most
\* width - 1 display characters, those at hscroll_offset .. hscroll_offset +
\* width - 2 of the line.
C7_LinesTruncated ==
    \A w \in windows :
        (Rendered(w) /\ Content(w) # << >>) =>
            LET v == vscroll_offset[w]
                h == hscroll_offset[w]
                length == tui_window[w].width - 1
                out == OutputLines(w)
            IN  /\ h >= 0
                /\ v >= 0
                /\ v + Len(out) <= Len(Content(w))
                /\ \A i \in 1 .. Len(out) :
                       /\ DisplayLen(out[i]) <= length
                       /\ re_sub(out[i]) = DisplayRange(Content(w)[v + i], h, length)
                       /\ out[i] = KeepRange(Content(w)[v + i], 1, 0, h, h + length)

\* the styled line "ab|cd" in a window of width 3, scrolled right by 2,
\* shows "cd"
C7_Witness ==
    /\ last.op = "hscroll"
    /\ Rendered(1)
    /\ Content(1) = StyledLines
    /\ tui_window[1].width = 3
    /\ hscroll_offset[1] = 2
    /\ re_sub(OutputLines(1)[1]) = << 99, 100 >>
    /\ Escapes(OutputLines(1)[1]) = Escapes(StyledLines[1])

\* C8: of two scroll commands in a row on one window the second never calls
\* get_lines, whatever the window had rendered before the first.
C8_SecondScrollUsesCache ==
    [][(IsScroll(last) /\ IsScroll(last') /\ last'.window = last.window)
          => trace'[last'.window].calls = 0]_vars

\* get_lines raised gdb.error in the render of window w in the last step
ErrorRendered(w) == trace[w].calls = 1 /\ provider[w].raises

\* the render wrote the message of the error, cut to the window, as one line
ErrorShown(w) ==
    /\ trace[w].raised = "none"
    /\ Len(trace[w].writes) = 1
    /\ trace[w].writes[1].full_redraw
    /\ Len(OutputLines(w)) = 1
    /\ re_sub(Output(w)) = DisplayRange(provider[w].message, hscroll_offset[w],
                                        tui_window[w].width - 1)

\* C9: when get_lines raises gdb.error in a render, by a host event or by a
\* scroll command, nothing propagates, the window is written with the message
\* as its only line, and the render of the next host redraw event calls
\* get_lines again.
C9_ErrorShownAndRetried ==
    [][\A w \in connected :
          /\ ErrorRendered(w)' => ErrorShown(w)'
          /\ (ErrorRendered(w) /\ last'.op = "before_prompt" /\ tui_window[w].valid)
                 => trace'[w].calls = 1]_vars

-----------------------------------------------------------------------------
(* Claims about the state render leaves behind, checked under Spec.        *)

\* render ran for window w in the step
RenderRan(w) == trace[w].renders = 1

\* C11: a render of a window that is not valid, run by before_prompt or by a
\* scroll command, writes nothing, does not call get_lines and leaves
\* vscroll_offset, hscroll_offset, use_cached_lines and cached_lines as they
\* were when render was entered (for a scroll command: the offset with the
\* delta added and the flag set).
C11_InvalidRenderNoOp ==
    [][\A w \in windows :
          (~tui_window[w].valid /\ RenderRan(w)') =>
              LET dv == IF last'.op = "vscroll" THEN last'.num ELSE 0
                  dh == IF last'.op = "hscroll" THEN last'.num ELSE 0
              IN  /\ trace'[w].writes = << >>
                  /\ trace'[w].calls = 0
                  /\ trace'[w].raised = "none"
                  /\ cached_lines'[w] = cached_lines[w]
                  /\ vscroll_offset'[w] = vscroll_offset[w] + dv
                  /\ hscroll_offset'[w] = hscroll_offset[w] + dh
                  /\ use_cached_lines'[w] = (use_cached_lines[w] \/ IsScroll(last'))]_vars

\* a scroll up on a window that is not valid: render ran and wrote nothing,
\* the offset keeps the raw sum and the snapshot cached before is still there
C11_Witness ==
    /\ last.op = "vscroll"
    /\ ~tui_window[1].valid
    /\ RenderRan(1)
    /\ ~Rendered(1)
    /\ vscroll_offset[1] < 0
    /\ use_cached_lines[1]
    /\ cached_lines[1] # None

-----------------------------------------------------------------------------
(* Claims about the whole range and about re.split, checked under          *)
(* SpecTruncate.                                                           *)

\* the components re.split gives for the string of the call
Components == re_split(call.string)

\* "".join(seqs)
RECURSIVE Concat(_)
Concat(seqs) ==
    IF seqs = << >> THEN << >> ELSE Head(seqs) \o Concat(Tail(seqs))

\* the components of normal text, in order
PlainComponents(t) == [i \in 1 .. ((Len(t) + 1) \div 2) |-> t[2 * i - 1]]

\* the places of s that hold an ESC beginning no ANSI sequence
StrayEscapes(s) == {i \in 1 .. Len(s) : s[i] = ESC /\ ANSI_PATTERN(s, i) = 0}

\* how many ESC a string holds
CountEsc(s) == Cardinality({i \in 1 .. Len(s) : s[i] = ESC})

\* C12: truncate_ansi_string(text, 0, display length of text) returns text
\* itself, for every text: escape sequences at its start or end and an ESC
\* that begins no escape sequence included.
C12_FullRangeIsIdentity ==
    (Returned /\ call.start = 0 /\ call.length = DisplayLen(call.string))
        => ret.value = call.string

\* a text that begins and ends with an escape sequence and holds an ESC that
\* begins none, truncated to its whole range
C12_Witness ==
    /\ Returned
    /\ call.start = 0
    /\ call.length = DisplayLen(call.string)
    /\ Len(Components) = 5
    /\ Components[1] = << >>
    /\ Components[5] = << >>
    /\ StrayEscapes(call.string) # {}
    /\ ret.value = call.string

\* C13: re.split on ANSI_PATTERN gives normal text and ANSI sequences in
\* turn, beginning and ending with normal text; joined they are the string;
\* every second component is one whole match, no normal-text component holds
\* a match at any place, and every ESC that begins no match lies in a
\* normal-text component and is counted in the display length.
C13_SplitRoundTrip ==
    LET t == Components
        plain == Concat(PlainComponents(t))
    IN  /\ Len(t) % 2 = 1
        /\ Concat(t) = call.string
        /\ \A k \in 1 .. Len(t) :
               IF k % 2 = 0
               THEN Len(t[k]) > 0 /\ ANSI_PATTERN(t[k], 1) = Len(t[k])
               ELSE \A i \in 1 .. Len(t[k]) : ANSI_PATTERN(t[k], i) = 0
        /\ CountEsc(plain) = Cardinality(StrayEscapes(call.string))
        /\ plain = re_sub(call.string)
        /\ DisplayLen(call.string) = Len(plain)

\* a truncated string of two escape sequences and, between them, an ESC that
\* begins none
C13_Witness ==
    /\ Returned
    /\ Len(Components) = 5
    /\ Len(Components[2]) = 3
    /\ Components[3] = << ESC, 51 >>
    /\ DisplayLen(call.string) = 2

-----------------------------------------------------------------------------
(* Claims about the life of a window, checked under SpecPanels.            *)

\* C14: render of a window is connected to before_prompt from __init__ until
\* close and never after: a before_prompt event runs the render of exactly
\* the connected windows, a window that was closed is neither rendered nor
\* written by it and is never connected again, and close disconnects the
\* window closed and no other.
C14_SubscribedUntilClose ==
    [][/\ \A w \in windows' :
              /\ (last'.op = "__init__" /\ last'.window = w) => w \in connected'
              /\ last'.op = "before_prompt" =>
                     /\ RenderRan(w)' <=> w \in connected
                     /\ w \notin connected => trace'[w].writes = << >>
                                               /\ trace'[w].calls = 0
              /\ (w \in windows /\ w \notin connected) => w \notin connected'
              /\ (w \in connected /\ w \notin connected') =>
                     last'.op = "close" /\ last'.window = w]_vars

\* of two windows one was closed: before_prompt rendered and wrote the other
\* one only
C14_Witness ==
    /\ last.op = "before_prompt"
    /\ windows = {1, 2}
    /\ connected = {2}
    /\ Rendered(2)
    /\ ~RenderRan(1)
    /\ ~Rendered(1)

-----------------------------------------------------------------------------
(* Claims about the cache, checked under Spec.                             *)

\* the render of window w in the last step called get_lines
Regenerated(w) == trace[w].calls = 1

\* C15: after every render that called get_lines use_cached_lines is False,
\* whatever it was before and whatever get_lines returned.
C15_FlagFalseAfterRegeneration ==
    \A w \in windows : Regenerated(w) => ~use_cached_lines[w]

\* C16: a render that reuses cached_lines right after a render that called
\* get_lines shows the lines that call returned: the call replaced the
\* snapshot, whatever it returned.
C16_CacheIsLatestCall ==
    [][\A w \in windows :
          (/\ Regenerated(w)
           /\ RenderRan(w)'
           /\ Rendered(w)'
           /\ trace'[w].calls = 0)
              => /\ Content(w)' = trace[w].lines
                 /\ cached_lines[w] # None
                 /\ cached_lines[w][1] = trace[w].lines]_vars

\* C17: the render that before_prompt runs on a valid window finds
\* use_cached_lines False, calls get_lines once and shows what it returned,
\* whatever scroll commands, renders, validity changes and content changes
\* came before.
C17_HostEventRegenerates ==
    [][\A w \in connected :
          (last'.op = "before_prompt" /\ tui_window[w].valid)
              => /\ ~use_cached_lines[w]
                 /\ trace'[w].calls = 1
                 /\ Content(w)' = get_lines_or_error(provider[w])]_vars

-----------------------------------------------------------------------------
(* Claims about the offsets a scroll command leaves, checked under Spec.   *)

\* C18: a vscroll(d) that renders H >= 1 lines in a window of height W leaves
\* vscroll_offset = min(max(0, H - W), max(0, old + d)), and an hscroll(d)
\* leaves hscroll_offset likewise for the content width and width - 1: the
\* limited offset is stored, not old + d.  So a scroll by -1 right after a
\* scroll that went beyond the end moves the first line or column shown by
\* exactly one.
C18_ScrollStoresLimitedOffset ==
    [][\A w \in windows :
          (IsScroll(last') /\ last'.window = w /\ Rendered(w)'
               /\ Content(w)' # << >>) =>
            \A lines \in {Content(w)'} :
              LET H == Len(lines)
                  W == tui_window[w].height
                  cw == MaxDisplayWidth(lines)
                  ww == tui_window[w].width - 1
                  d == last'.num
                  vmax == Max(0, H - W)
                  hmax == Max(0, cw - ww)
              IN  /\ last'.op = "vscroll" =>
                        /\ vscroll_offset'[w] =
                               Min(vmax, Max(0, vscroll_offset[w] + d))
                        /\ (/\ last.op = "vscroll" /\ last.window = w
                            /\ last.num > 0 /\ Rendered(w)
                            /\ Content(w) = lines
                            /\ vscroll_offset[w] = vmax
                            /\ vmax >= 1 /\ d = -1)
                               => vscroll_offset'[w] = vmax - 1
                  /\ last'.op = "hscroll" =>
                        /\ hscroll_offset'[w] =
                               Min(hmax, Max(0, hscroll_offset[w] + d))
                        /\ (/\ last.op = "hscroll" /\ last.window = w
                            /\ last.num > 0 /\ Rendered(w)
                            /\ Content(w) = lines
                            /\ hscroll_offset[w] = hmax
                            /\ hmax >= 1 /\ d = -1)
                               => hscroll_offset'[w] = hmax - 1]_vars

\* three lines in a window of height 1: after a scroll beyond the end (the
\* offset was left at 2) a scroll by -1 shows the line before the last
C18_Witness ==
    /\ last.op = "vscroll"
    /\ last.num = -1
    /\ Rendered(1)
    /\ Content(1) = TallLines
    /\ tui_window[1].height = 1
    /\ vscroll_offset[1] = Len(TallLines) - 2
    /\ OutputLines(1) = << TallLines[Len(TallLines) - 1] >>

\* the render of window w in the last step called truncate_ansi_string: it
\* had lines to truncate
TruncateCalled(w) == RenderRan(w) /\ tui_window[w].valid /\ Content(w) # << >>

\* C19: whatever the size of the window (height >= 1, width >= 1) and
\* whatever scroll commands, before_prompt events and changes of content came
\* before, render calls truncate_ansi_string with start >= 0 and
\* length >= 0 only, and no ValueError leaves render.
C19_TruncateArgumentsValid ==
    \A w \in windows :
        /\ trace[w].raised = "none"
        /\ TruncateCalled(w) =>
               /\ Rendered(w)
               /\ hscroll_offset[w] >= 0
               /\ tui_window[w].width - 1 >= 0

\* a scroll to the left beyond the first column: the line is truncated from
\* column 0
C19_Witness ==
    /\ last.op = "hscroll"
    /\ last.num = -MaxDelta
    /\ TruncateCalled(1)
    /\ Content(1) = TallLines
    /\ hscroll_offset[1] = 0
    /\ trace[1].raised = "none"
    /\ Rendered(1)

-----------------------------------------------------------------------------
(* Claims about a resized window, checked under SpecResize.                *)

\* C20: height and width are read from the window in every render: when the
\* window was resized after a render and a scroll command then renders the
\* cached lines, both offsets are limited against the new height and width
\* and the output has exactly min(content_height, new height) lines, each of
\* display width at most new width - 1.
C20_GeometryReadFresh ==
    [][\A w \in windows :
          (/\ last.op = "resize" /\ last.window = w
           /\ IsScroll(last') /\ last'.window = w
           /\ Rendered(w)'
           /\ trace'[w].calls = 0) =>
            \A lines \in {Content(w)'}, out \in {OutputLines(w)'} :
              LET H == Len(lines)
                  cw == MaxDisplayWidth(lines)
                  W == tui_window'[w].height
                  ww == tui_window'[w].width - 1
              IN  /\ lines = cached_lines[w][1]
                  /\ 0 <= vscroll_offset'[w]
                  /\ vscroll_offset'[w] <= Max(0, H - W)
                  /\ 0 <= hscroll_offset'[w]
                  /\ hscroll_offset'[w] <= Max(0, cw - ww)
                  /\ Len(out) = Min(H, W)
                  /\ \A i \in 1 .. Len(out) : DisplayLen(out[i]) <= ww]_vars

\* three lines had been cached, the window was made two lines high, and a
\* scroll to the right then wrote two of the cached lines
C20_Witness ==
    /\ trace[1].resized
    /\ last.op = "hscroll"
    /\ trace[1].calls = 0
    /\ Rendered(1)
    /\ Content(1) = TallLines
    /\ tui_window[1].height = 2
    /\ vscroll_offset[1] = Len(TallLines) - 2
    /\ Len(OutputLines(1)) = 2

-----------------------------------------------------------------------------
(* Claims about several windows at once, checked under SpecPanels.         *)

\* window w was written exactly once in the last step, with full_redraw
WrittenOnce(w) == Len(trace[w].writes) = 1 /\ trace[w].writes[1].full_redraw

\* vscroll_offset, hscroll_offset, use_cached_lines and cached_lines of w
Fields(w) ==
    << vscroll_offset[w], hscroll_offset[w], use_cached_lines[w], cached_lines[w] >>

\* C21: a before_prompt event writes every connected window that is valid
\* exactly once, with full_redraw True, and writes no window that was closed;
\* a scroll command on a valid window writes that window exactly once, with
\* full_redraw True, and no other window; no step writes a window twice.
C21_OneWritePerEvent ==
    [][\A w \in windows' :
          /\ Len(trace'[w].writes) <= 1
          /\ (last'.op = "before_prompt" /\ w \in connected /\ tui_window[w].valid)
                 => WrittenOnce(w)'
          /\ (last'.op = "before_prompt" /\ w \notin connected)
                 => trace'[w].writes = << >>
          /\ (IsScroll(last') /\ last'.window = w /\ tui_window[w].valid)
                 => WrittenOnce(w)'
          /\ (IsScroll(last') /\ last'.window # w) => trace'[w].writes = << >>
          /\ last'.op \in {"__init__", "close"} => trace'[w].writes = << >>]_vars

\* one before_prompt event wrote two windows, once each
C21_Witness ==
    /\ last.op = "before_prompt"
    /\ connected = {1, 2}
    /\ WrittenOnce(1)
    /\ WrittenOnce(2)
    /\ Output(1) # Output(2)

\* C22: a scroll command on one window leaves vscroll_offset, hscroll_offset,
\* use_cached_lines and cached_lines of every other window as they were; the
\* renders of a before_prompt event leave a closed window as it was and
\* leave every connected window as its own render alone leaves it.
C22_OtherPanelsUnchanged ==
    [][\A w \in windows :
          /\ (IsScroll(last') /\ last'.window # w) => Fields(w)' = Fields(w)
          /\ (last'.op = "before_prompt" /\ w \notin connected)
                 => Fields(w)' = Fields(w)
          /\ (last'.op = "before_prompt" /\ w \in connected) =>
                 \A r \in {render(Self(w), tui_window[w], provider[w]).self} :
                     Fields(w)' = << r.vscroll_offset, r.hscroll_offset,
                                     r.use_cached_lines, r.cached_lines >>]_vars

\* window 1 was scrolled down and rendered while window 2, rendered and
\* scrolled to the right before, kept its offset and its snapshot
C22_Witness ==
    /\ windows = {1, 2}
    /\ last.op = "vscroll"
    /\ last.window = 1
    /\ Rendered(1)
    /\ vscroll_offset[1] = 1
    /\ ~Rendered(2)
    /\ hscroll_offset[2] = 1
    /\ vscroll_offset[2] = 0
    /\ cached_lines[2] # None
    /\ cached_lines[2] # cached_lines[1]

-----------------------------------------------------------------------------
(* race.py: thread_fn_1 adds to g_value.count under the lock and asserts     *)
(* the sum; thread_fn_2 adds 1 without the lock.  A step is what a thread   *)
(* does between two places where the interpreter may switch threads: a      *)
(* read or a write of g_value.count, the call of random.randint, taking     *)
(* and releasing the lock.  The iteration counters only choose when to      *)
(* print and are left out.                                                  *)

\* main: g_value.count = 0, the lock free, both threads started
InitRace ==
    /\ call = NoCall
    /\ ret = NoReturn
    /\ InitWindows({})
    /\ race = [count |-> 0,
               lock |-> 0,
               pc |-> << "with", "load" >>,
               old_value |-> 0,
               increment |-> 0,
               loaded |-> << 0, 0 >>]
    /\ bytecode = NoBytecode
    /\ command = NoCommand

\* the process runs: os.abort() was not called
Running == race # NoRace /\ race.pc[1] # "abort"

RaceFrame == UNCHANGED <<call, ret, windowVars, bytecode, command>>

\* thread_fn_1, line 21: with lock (acquire)
thread_fn_1_with ==
    /\ Running
    /\ race.pc[1] = "with"
    /\ race.lock = 0
    /\ race' = [race EXCEPT !.lock = 1, !.pc[1] = "old_value"]
    /\ RaceFrame

\* line 24: old_value = g_value.count
thread_fn_1_old_value ==
    /\ Running
    /\ race.pc[1] = "old_value"
    /\ race' = [race EXCEPT !.old_value = race.count, !.pc[1] = "randint"]
    /\ RaceFrame

\* line 25: increment = random.randint(1, 5)
thread_fn_1_randint ==
    /\ Running
    /\ race.pc[1] = "randint"
    /\ \E n \in MinIncrement .. MaxIncrement :
          race' = [race EXCEPT !.increment = n, !.pc[1] = "load"]
    /\ RaceFrame

\* line 26, g_value.count += increment: the read of g_value.count
thread_fn_1_load ==
    /\ Running
    /\ race.pc[1] = "load"
    /\ race' = [race EXCEPT !.loaded[1] = race.count, !.pc[1] = "store"]
    /\ RaceFrame

\* line 26: the write of the sum
thread_fn_1_store ==
    /\ Running
    /\ race.pc[1] = "store"
    /\ race.loaded[1] + race.increment <= MaxCount
    /\ race' = [race EXCEPT !.count = race.loaded[1] + race.increment,
                            !.pc[1] = "assert"]
    /\ RaceFrame

\* lines 27-29: the assert; when it fails the AssertionError leaves the with
\* block (the lock is released) and the thread, and exception_handler calls
\* os.abort()
thread_fn_1_assert ==
    /\ Running
    /\ race.pc[1] = "assert"
    /\ race' = IF race.count = race.old_value + race.increment
               THEN [race EXCEPT !.pc[1] = "release"]
               ELSE [race EXCEPT !.lock = 0, !.pc[1] = "abort"]
    /\ RaceFrame

\* the end of the with block: the lock is released, and the loop goes on
thread_fn_1_release ==
    /\ Running
    /\ race.pc[1] = "release"
    /\ race' = [race EXCEPT !.lock = 0, !.pc[1] = "with"]
    /\ RaceFrame

\* thread_fn_2, line 40, g_value.count += 1: the read of g_value.count
thread_fn_2_load ==
    /\ Running
    /\ race.pc[2] = "load"
    /\ race' = [race EXCEPT !.loaded[2] = race.count, !.pc[2] = "store"]
    /\ RaceFrame

\* line 40: the write of the sum, and the loop goes on
thread_fn_2_store ==
    /\ Running
    /\ race.pc[2] = "store"
    /\ race.loaded[2] + 1 <= MaxCount
    /\ race' = [race EXCEPT !.count = race.loaded[2] + 1, !.pc[2] = "load"]
    /\ RaceFrame

NextRace ==
    \/ thread_fn_1_with
    \/ thread_fn_1_old_value
    \/ thread_fn_1_randint
    \/ thread_fn_1_load
    \/ thread_fn_1_store
    \/ thread_fn_1_assert
    \/ thread_fn_1_release
    \/ thread_fn_2_load
    \/ thread_fn_2_store

SpecRace == InitRace /\ [][NextRace]_vars

-----------------------------------------------------------------------------
(* Claims about race.py, checked under SpecRace.                           *)

\* C23: under every interleaving of the two threads the assert of
\* thread_fn_1 holds: at the assert g_value.count = old_value + increment,
\* and exception_handler and os.abort() are never reached.
C23_AssertHolds ==
    /\ race.pc[1] = "assert" => race.count = race.old_value + race.increment
    /\ race.pc[1] # "abort"

-----------------------------------------------------------------------------
(* libpython_ui.py: PythonBytecodeWindow.get_lines picks the lines of      *)
(* py-dis around the current instruction, and Window.render cuts them to   *)
(* the window.                                                             *)

\* "-->", the mark of the current instruction in py-dis
Arrow == << 45, 45, 62 >>

\* needle in line
Contains(line, needle) ==
    \E i \in 1 .. (Len(line) - Len(needle) + 1) :
        SubSeq(line, i, i + Len(needle) - 1) = needle

\* the line py-dis prints for the instruction at index (from 1)
DisLine(index, current) ==
    (IF index = current THEN Arrow ELSE << 32, 32, 32 >>) \o << 32, 48 + index >>

\* gdb.execute("py-dis", to_string=True).splitlines(): total lines, of which
\* the line current is marked (none when current = 0)
PyDis(total, current) == [i \in 1 .. total |-> DisLine(i, current)]

Disassemblies == {PyDis(total, current) : total \in 1 .. MaxDis, current \in 0 .. MaxDis}

BytecodeGeometries == [height : 1 .. MaxDis, width : 1 .. MaxWidth, valid : BOOLEAN]

\* the index (from 1) of the first line holding "-->", 0 when there is none:
\* the for loop of lines 102-107
CurrentLine(lines) ==
    IF \E i \in 1 .. Len(lines) : Contains(lines[i], Arrow)
    THEN CHOOSE i \in 1 .. Len(lines) :
             /\ Contains(lines[i], Arrow)
             /\ \A j \in 1 .. (i - 1) : ~Contains(lines[j], Arrow)
    ELSE 0

\* PythonBytecodeWindow.get_lines
bytecode_get_lines(lines, height) ==
    LET total_lines == Len(lines)
        current_line == CurrentLine(lines)
        first_half == height \div 2
        second_half == height - first_half
    IN  IF total_lines < height THEN lines
        ELSE IF current_line = 0 THEN Slice(lines, 0, height)
        ELSE IF current_line < first_half THEN Slice(lines, 0, height)
        ELSE IF current_line + second_half > total_lines
             THEN Slice(lines, total_lines - height, total_lines)
        ELSE Slice(lines, current_line - first_half, current_line + second_half)

\* Window.render: the lines cut to the height, each cut to width - 1
\* characters, written joined by newlines; nothing on an invalid window
bytecode_render(lines, win) ==
    IF ~win.valid
    THEN [shown |-> << >>, writes |-> << >>]
    ELSE LET shown == Slice(bytecode_get_lines(lines, win.height), 0, win.height)
             cut == [i \in 1 .. Len(shown) |-> Slice(shown[i], 0, win.width - 1)]
         IN  [shown |-> shown,
              writes |-> << [string |-> Join(cut), full_redraw |-> TRUE] >>]

\* a bytecode window on some disassembly, not rendered yet
InitBytecode ==
    /\ call = NoCall
    /\ ret = NoReturn
    /\ InitWindows({})
    /\ race = NoRace
    /\ command = NoCommand
    /\ \E lines \in Disassemblies, win \in BytecodeGeometries :
          bytecode = [lines |-> lines, win |-> win, shown |-> << >>,
                      writes |-> << >>]

BytecodeFrame == UNCHANGED <<call, ret, windowVars, race, command>>

\* gdb.events.before_prompt fires: Window.render runs
BytecodeBeforePrompt ==
    /\ bytecode # NoBytecode
    /\ \E r \in {bytecode_render(bytecode.lines, bytecode.win)} :
          bytecode' = [bytecode EXCEPT !.shown = r.shown, !.writes = r.writes]
    /\ BytecodeFrame

\* the debuggee moves on: py-dis prints something else
BytecodeStep ==
    /\ bytecode # NoBytecode
    /\ \E lines \in Disassemblies :
          /\ lines # bytecode.lines
          /\ bytecode' = [bytecode EXCEPT !.lines = lines, !.shown = << >>,
                                          !.writes = << >>]
    /\ BytecodeFrame

\* the host resizes the window, or makes it invalid or valid again
BytecodeResize ==
    /\ bytecode # NoBytecode
    /\ \E win \in BytecodeGeometries :
          /\ win # bytecode.win
          /\ bytecode' = [bytecode EXCEPT !.win = win, !.shown = << >>,
                                          !.writes = << >>]
    /\ BytecodeFrame

NextBytecode ==
    \/ BytecodeBeforePrompt
    \/ BytecodeStep
    \/ BytecodeResize

SpecBytecode == InitBytecode /\ [][NextBytecode]_vars

-----------------------------------------------------------------------------
(* Claims about the bytecode window, checked under SpecBytecode.           *)

\* C24: for every height >= 1 and every disassembly with a line marked
\* "-->", the lines the bytecode window renders (get_lines, then the cut to
\* the height) include the marked line, and there are
\* min(total lines, height) of them.
C24_CurrentInstructionShown ==
    (bytecode # NoBytecode /\ bytecode.writes # << >>
         /\ CurrentLine(bytecode.lines) # 0) =>
        LET lines == bytecode.lines
            current == lines[CurrentLine(lines)]
            out == SplitLines(bytecode.writes[1].string)
        IN  /\ Len(bytecode.shown) = Min(Len(lines), bytecode.win.height)
            /\ Len(out) = Len(bytecode.shown)
            /\ \E i \in 1 .. Len(bytecode.shown) :
                   /\ bytecode.shown[i] = current
                   /\ out[i] = Slice(current, 0, bytecode.win.width - 1)

-----------------------------------------------------------------------------
(* libpython_extensions.py: advance_function and python_step_bytecode set   *)
(* internal breakpoints, run the debuggee and delete the breakpoints.  gdb  *)
(* may refuse any request with an error; which request fails is an input.   *)
(* debugger_utils.breakpoints_suspended() suspends the breakpoints of the   *)
(* user and touches no internal breakpoint.                                 *)

\* the arguments the commands are given
FunctionNames == {"", "f"}
Opcodes == {"", "LOAD_FAST", "bogus"}

\* gdb with no internal breakpoint, no command running
InitCommand ==
    /\ call = NoCall
    /\ ret = NoReturn
    /\ InitWindows({})
    /\ race = NoRace
    /\ bytecode = NoBytecode
    /\ command = [function |-> "none",
                  pc |-> "idle",
                  forward |-> TRUE,
                  arg |-> "",
                  gdb_breakpoints |-> {},
                  created |-> {},
                  breakpoints |-> << >>,
                  bp |-> 0,
                  error |-> "none",
                  raised |-> "none"]

CommandFrame == UNCHANGED <<call, ret, windowVars, race, bytecode>>

\* the number gdb gives the next breakpoint
NextNumber == Cardinality(command.gdb_breakpoints \cup command.created) + 1

\* a command may start
Idle ==
    /\ command # NoCommand
    /\ command.pc = "idle"
    /\ NextNumber + 1 <= MaxBreakpoints

\* the command ends: error leaves it, or it returns when error is "none"
Exit(c, error) == [c EXCEPT !.pc = "idle", !.raised = error]

\* advance_function(forward, function_name) is called (lines 139-151)
advance_function(forward, function_name) ==
    /\ Idle
    /\ command' = [command EXCEPT !.function = "advance_function",
                                  !.pc = "ConditionalBreakpoint",
                                  !.forward = forward,
                                  !.arg = function_name,
                                  !.created = {},
                                  !.breakpoints = << >>,
                                  !.bp = 0,
                                  !.error = "none",
                                  !.raised = "running"]
    /\ CommandFrame

\* lines 152-162, one turn of the for loop: the breakpoint is created and
\* appended, or gdb.Breakpoint.__init__ raises and the error leaves the
\* function (the loop is not inside the try)
advance_ConditionalBreakpoint ==
    /\ command # NoCommand
    /\ command.function = "advance_function"
    /\ command.pc = "ConditionalBreakpoint"
    /\ \E ok \in BOOLEAN :
          command' =
              IF ok
              THEN [command EXCEPT
                       !.gdb_breakpoints = @ \cup {NextNumber},
                       !.created = @ \cup {NextNumber},
                       !.breakpoints = Append(@, NextNumber),
                       !.pc = IF Len(command.breakpoints) = 1
                              THEN "execute" ELSE "ConditionalBreakpoint"]
              ELSE Exit([command EXCEPT !.error = "gdb.error"], "gdb.error")
    /\ CommandFrame

\* lines 163-164: gdb.execute("continue" or "reverse-continue")
advance_execute ==
    /\ command # NoCommand
    /\ command.function = "advance_function"
    /\ command.pc = "execute"
    /\ \E ok \in BOOLEAN :
          command' = [command EXCEPT !.pc = "finally",
                                     !.error = IF ok THEN "none" ELSE "gdb.error"]
    /\ CommandFrame

\* lines 165-167: every breakpoint of the list is deleted, and the error of
\* the try block, if any, goes on
advance_finally ==
    /\ command # NoCommand
    /\ command.function = "advance_function"
    /\ command.pc = "finally"
    /\ command' = Exit([command EXCEPT
                           !.gdb_breakpoints =
                               @ \ {command.breakpoints[i] :
                                        i \in 1 .. Len(command.breakpoints)}],
                       command.error)
    /\ CommandFrame

\* python_step_bytecode(forwards=forwards, opcode=opcode) is called
python_step_bytecode(forwards, opcode) ==
    /\ Idle
    /\ command' = [command EXCEPT !.function = "python_step_bytecode",
                                  !.pc = "get_c_source_location",
                                  !.forward = forwards,
                                  !.arg = opcode,
                                  !.created = {},
                                  !.breakpoints = << >>,
                                  !.bp = 0,
                                  !.error = "none",
                                  !.raised = "running"]
    /\ CommandFrame

\* lines 249-255: the location of dispatch_opcode is found, or ValueError is
\* turned into gdb.GdbError, which leaves the function
step_get_c_source_location ==
    /\ command # NoCommand
    /\ command.function = "python_step_bytecode"
    /\ command.pc = "get_c_source_location"
    /\ \E ok \in BOOLEAN :
          command' =
              IF ok THEN [command EXCEPT !.pc = "Breakpoint"]
              ELSE Exit([command EXCEPT !.error = "GdbError"], "GdbError")
    /\ CommandFrame

\* line 258: bp = gdb.Breakpoint(location, internal=True); when it raises
\* bp stays unbound and the finally block is next
step_Breakpoint ==
    /\ command # NoCommand
    /\ command.function = "python_step_bytecode"
    /\ command.pc = "Breakpoint"
    /\ \E ok \in BOOLEAN :
          command' =
              IF ok
              THEN [command EXCEPT
                       !.gdb_breakpoints = @ \cup {NextNumber},
                       !.created = @ \cup {NextNumber},
                       !.bp = NextNumber,
                       !.pc = "get_opcode_number"]
              ELSE [command EXCEPT !.error = "gdb.error", !.pc = "finally"]
    /\ CommandFrame

\* lines 259-262: with an opcode, get_opcode_number gives its number, or
\* raises gdb.GdbError for an opcode that is not one, or fails in gdb while
\* reading the version of the debuggee's Python; with none, nothing is done
step_get_opcode_number ==
    /\ command # NoCommand
    /\ command.function = "python_step_bytecode"
    /\ command.pc = "get_opcode_number"
    /\ \E ok \in BOOLEAN :
          /\ command.arg = "" => ok
          /\ command.arg = "bogus" => ~ok
          /\ command' =
                 IF ok THEN [command EXCEPT !.pc = "execute"]
                 ELSE [command EXCEPT
                          !.error = IF command.arg = "bogus"
                                    THEN "GdbError" ELSE "gdb.error",
                          !.pc = "finally"]
    /\ CommandFrame

\* line 263: gdb.execute("continue" or "reverse-continue")
step_execute ==
    /\ command # NoCommand
    /\ command.function = "python_step_bytecode"
    /\ command.pc = "execute"
    /\ \E ok \in BOOLEAN :
          command' = [command EXCEPT !.pc = "finally",
                                     !.error = IF ok THEN "none" ELSE "gdb.error"]
    /\ CommandFrame

\* lines 264-266: "if bp is not None: bp.delete()"; reading bp while it is
\* unbound raises UnboundLocalError, which takes the place of the error of
\* the try block
step_finally ==
    /\ command # NoCommand
    /\ command.function = "python_step_bytecode"
    /\ command.pc = "finally"
    /\ command' =
           IF command.bp = 0
           THEN Exit(command, "UnboundLocalError")
           ELSE Exit([command EXCEPT !.gdb_breakpoints = @ \ {command.bp}],
                     command.error)
    /\ CommandFrame

NextCommand ==
    \/ \E forward \in BOOLEAN, function_name \in FunctionNames :
          advance_function(forward, function_name)
    \/ advance_ConditionalBreakpoint
    \/ advance_execute
    \/ advance_finally
    \/ \E forwards \in BOOLEAN, opcode \in Opcodes :
          python_step_bytecode(forwards, opcode)
    \/ step_get_c_source_location
    \/ step_Breakpoint
    \/ step_get_opcode_number
    \/ step_execute
    \/ step_finally

SpecCommand == InitCommand /\ [][NextCommand]_vars

-----------------------------------------------------------------------------
(* Claims about the commands, checked under SpecCommand.                   *)

\* the command that ran last has ended
Exited == command.function # "none" /\ command.pc = "idle"

\* C25: whenever advance_function or python_step_bytecode has ended, by
\* returning or by an error raised at any step, no breakpoint it created is
\* left in gdb, and what left it is the error of that step (nothing when
\* every step went well).
C25_BreakpointsDeletedOnExit ==
    Exited =>
        /\ command.created \cap command.gdb_breakpoints = {}
        /\ command.raised = command.error

====
